---- MODULE Spec2Model ----
(***************************************************************************)
(* Detection job and monitoring engine of escvape:                         *)
(*   - SelfVideoMonitor sessions and their registry                        *)
(*     (parental_control_api.py),                                          *)
(*   - the AppProtectionSystem start/stop/status handlers                  *)
(*     (app_protection.py, api_server.py),                                 *)
(*   - the AlertManager hub (alerts.py) and its producers,                 *)
(*   - the batch jobs: submit and status requests and the background       *)
(*     workers (api_server.py).                                            *)
(*                                                                         *)
(* Nine specifications share the variables:                                *)
(*   Spec      the session registry with its monitor threads, over a       *)
(*             short time horizon;                                         *)
(*   SpecTick  one session followed over a long time horizon (cooldown     *)
(*             and screenshot retention);                                  *)
(*   SpecStop  stopping a session and the protection handlers;             *)
(*   SpecHub   the alert hub: subscribers, producers, broadcast            *)
(*             coroutines on the event loop;                               *)
(*   SpecJobs  the batch jobs with their workers and status requests;      *)
(*   SpecJobsFair  the submit requests and the workers, under weak         *)
(*             fairness of every worker;                                   *)
(*   SpecLoopFair  one session under weak fairness of its monitor thread;  *)
(*   SpecAllPositive  one session all of whose ticks are classified as a   *)
(*             match;                                                      *)
(*   SpecHubStuck  the alert hub with one subscriber whose sends never     *)
(*             complete, under weak fairness of the event loop.            *)
(***************************************************************************)
EXTENDS Integers, Sequences, FiniteSets, TLC

\* ------------------------------------------------------------------------
\* Program constants
\* ------------------------------------------------------------------------
detection_cooldown == 30
max_screenshots == 5
SleepSeconds == 5
BatchLimit == 50

\* ------------------------------------------------------------------------
\* Bounds of the model
\* ------------------------------------------------------------------------
Devices == {"d1"}
MaxMonitors == 2
StartTime == 30
TimeStep == 15
MaxTime == 45
TickHorizon == 240
MaxDeleteFailures == 1
MaxProtThreads == 2
MaxStopSessions == 1
WebSockets == {"w1", "w2"}
MaxMessages == 2
MaxFiles == 2
MaxPhotos == 1

TestProducer == 0
Producers == 0..MaxMonitors
HubSessions == {1, 2}

NoSession == 0

\* ------------------------------------------------------------------------
\* State
\* ------------------------------------------------------------------------
VARIABLES
    now,                         \* wall clock read by time.time()
    active_monitoring_sessions,  \* registry: device id -> session id
    monitors,                    \* one record per SelfVideoMonitor created
    temp_screens,                \* files of the temp_screens/ directory
    delete_failures,             \* how many os.remove calls have failed
    last_response,               \* reply of the latest HTTP request
    is_running,                  \* AppProtectionSystem.is_running
    protection_threads,          \* protection_loop threads ever started
    app_status,                  \* devices registered in app_status
    stopped_threads,             \* threads not ended when stop_protection ran
    event_loop,                  \* alerts._event_loop: "none" or "running"
    connections,                 \* AlertManager.connections
    ws_state,                    \* each websocket: new, open, closed, ended
    scheduled,                   \* coroutines handed to the loop, not started
    broadcasts,                  \* broadcast coroutines awaiting a send
    pub_count,                   \* messages published so far, per producer
    sent,                        \* per websocket: the send_json calls made
    disconnected,                \* websockets for which disconnect returned
    finished,                    \* broadcast coroutines that have returned
    dropped,                     \* messages published with no running loop
    batch_jobs,                  \* table batch_jobs of jobs.db: id -> row
    job_results,                 \* table job_results of jobs.db, per job id
    workers,                     \* background task of each job id
    returned,                    \* job ids answered to a submit request
    job_response                 \* reply of the latest /detect or /jobs request

monVars == <<now, active_monitoring_sessions, monitors, temp_screens,
             delete_failures>>
protVars == <<is_running, protection_threads, app_status, stopped_threads>>
hubVars == <<event_loop, connections, ws_state, scheduled, broadcasts,
             pub_count, sent, disconnected, finished, dropped>>
jobVars == <<batch_jobs, job_results, workers, returned, job_response>>
vars == <<now, active_monitoring_sessions, monitors, temp_screens,
          delete_failures, last_response, is_running, protection_threads,
          app_status, stopped_threads, event_loop, connections, ws_state,
          scheduled, broadcasts, pub_count, sent, disconnected, finished, dropped,
          batch_jobs, job_results, workers, returned, job_response>>

\* Files of temp_screens/ whose name starts with temp_screenshot_<sid>_
SessionFiles(sid) == {f \in temp_screens : f.sid = sid}

\* A new SelfVideoMonitor (__init__), already started by start_monitoring:
\* is_running = True and the thread is about to test the while condition.
NewMonitor(d) ==
    [device |-> d, is_running |-> TRUE, last_detection_time |-> 0,
     pc |-> "loop", current_time |-> 0, wake_at |-> 0, alerts |-> <<>>]

\* What the latest HTTP request answered: ok is FALSE for an HTTP 500.
Response(op, d, ok, sid, status) ==
    [op |-> op, device |-> d, ok |-> ok, session |-> sid, status |-> status]

\* The uuid4 strings a submit request can draw.
JobIds == {"j1", "j2"}

\* An empty table batch_jobs.
NoRows == [j \in {} |-> 0]

\* No background task has been added for a job id.
NoWorker == [kind |-> "none", pc |-> "none", items |-> 0, idx |-> 0,
             processed |-> 0, engine_error |-> FALSE,
             handler_raised |-> FALSE, failures |-> 0, uncounted |-> 0]

\* What the latest /detect or /jobs request answered: the HTTP status code
\* and, of the body, the job id, the fields the request reports and the
\* detail of an error.
JobResponse(op, code, j, status, total, processed, error, detail) ==
    [op |-> op, code |-> code, job_id |-> j, status |-> status,
     total |-> total, processed |-> processed, error |-> error,
     detail |-> detail]

Init ==
    /\ now = StartTime
    /\ active_monitoring_sessions = [d \in Devices |-> NoSession]
    /\ monitors = <<>>
    /\ temp_screens = {}
    /\ delete_failures = 0
    /\ last_response = Response("none", "", TRUE, NoSession, "")
    /\ is_running = FALSE
    /\ protection_threads = <<>>
    /\ app_status = {}
    /\ stopped_threads = {}
    /\ event_loop = "none"
    /\ connections = <<>>
    /\ ws_state = [w \in WebSockets |-> "new"]
    /\ scheduled = <<>>
    /\ broadcasts = {}
    /\ pub_count = [p \in Producers |-> 0]
    /\ sent = [w \in WebSockets |-> <<>>]
    /\ disconnected = {}
    /\ finished = {}
    /\ dropped = {}
    /\ batch_jobs = NoRows
    /\ job_results = [j \in JobIds |-> <<>>]
    /\ workers = [j \in JobIds |-> NoWorker]
    /\ returned = {}
    /\ job_response = JobResponse("none", 200, "", "", 0, 0, "", "")

\* ------------------------------------------------------------------------
\* Alert hub: what producers call (alerts.py)
\* ------------------------------------------------------------------------

\* The n-th alert of producer p (a session id, or TestProducer).
Message(p, n) == [producer |-> p, seq |-> n]

\* A broadcast_from_thread without the test of the loop: the coroutine is
\* queued whatever the state of the loop.
broadcast_from_thread_unconditional(message) ==
    /\ scheduled' = Append(scheduled, message)
    /\ dropped' = IF event_loop = "running"
                  THEN dropped
                  ELSE dropped \cup {message}

\* broadcast_from_thread(message): with a registered, running loop the
\* broadcast coroutine is handed to it by run_coroutine_threadsafe and the
\* call returns; otherwise nothing happens.
broadcast_from_thread(message) ==
    /\ scheduled' = IF event_loop = "running"
                    THEN Append(scheduled, message)
                    ELSE scheduled
    /\ dropped' = IF event_loop = "running"
                  THEN dropped
                  ELSE dropped \cup {message}

\* ------------------------------------------------------------------------
\* Session registry handlers (parental_control_api.py)
\* ------------------------------------------------------------------------

\* POST /self-monitoring/start-monitoring: a new session row, a new
\* SelfVideoMonitor, started, stored in the registry under the device id.
\* The INSERT may fail, which is answered by HTTP 500 before anything is
\* created.
StartMonitoring(d) ==
    /\ Len(monitors) < MaxMonitors
    /\ \E db_ok \in BOOLEAN :
         IF db_ok
         THEN /\ monitors' = Append(monitors, NewMonitor(d))
              /\ active_monitoring_sessions' =
                     [active_monitoring_sessions EXCEPT ![d] = Len(monitors) + 1]
              /\ last_response' = Response("start", d, TRUE, Len(monitors) + 1, "")
         ELSE /\ last_response' = Response("start", d, FALSE, NoSession, "")
              /\ UNCHANGED <<monitors, active_monitoring_sessions>>
    /\ UNCHANGED <<now, temp_screens, delete_failures, protVars,
                   hubVars, jobVars>>

\* A stop handler that forgets to delete the registry entry.
StopMonitoringKeepsEntry(d) ==
    LET sid == active_monitoring_sessions[d] IN
    /\ IF sid # NoSession
       THEN /\ monitors' = [monitors EXCEPT ![sid].is_running = FALSE]
            /\ last_response' = Response("stop", d, TRUE, sid, "")
            /\ UNCHANGED active_monitoring_sessions
       ELSE /\ last_response' = Response("stop", d, TRUE, NoSession, "")
            /\ UNCHANGED <<monitors, active_monitoring_sessions>>
    /\ UNCHANGED <<now, temp_screens, delete_failures, protVars,
                   hubVars, jobVars>>

\* POST /self-monitoring/stop-monitoring: for a registered device the
\* monitor's flag is cleared, the session row is closed (the UPDATE may
\* fail: HTTP 500, entry kept) and the entry is deleted; an unknown device
\* is answered with success.
StopMonitoring(d) ==
    LET sid == active_monitoring_sessions[d] IN
    /\ IF sid # NoSession
       THEN \E db_ok \in BOOLEAN :
              /\ monitors' = [monitors EXCEPT ![sid].is_running = FALSE]
              /\ active_monitoring_sessions' =
                     IF db_ok
                     THEN [active_monitoring_sessions EXCEPT ![d] = NoSession]
                     ELSE active_monitoring_sessions
              /\ last_response' = Response("stop", d, db_ok, sid, "")
       ELSE /\ last_response' = Response("stop", d, TRUE, NoSession, "")
            /\ UNCHANGED <<monitors, active_monitoring_sessions>>
    /\ UNCHANGED <<now, temp_screens, delete_failures, protVars,
                   hubVars, jobVars>>

\* ------------------------------------------------------------------------
\* The monitor thread (SelfVideoMonitor._monitor_loop), one step at a time
\* ------------------------------------------------------------------------
MonitorIds == 1..Len(monitors)

SetMonitor(m, r) == monitors' = [monitors EXCEPT ![m] = r]

\* return from _analyze_screenshot (or a skipped tick): time.sleep(5)
ToSleep(r) == [r EXCEPT !.pc = "sleep", !.wake_at = now + SleepSeconds,
                        !.current_time = 0]

\* A loop that a tick without a video window brings to its end.
LoopCheckEndsOnMiss(m) ==
    /\ monitors[m].pc = "loop"
    /\ IF ~monitors[m].is_running
       THEN SetMonitor(m, [monitors[m] EXCEPT !.pc = "done"])
       ELSE \E found \in BOOLEAN :
              IF found
              THEN SetMonitor(m, [monitors[m] EXCEPT !.pc = "capture"])
              ELSE SetMonitor(m, [monitors[m] EXCEPT !.pc = "done"])
    /\ UNCHANGED <<now, active_monitoring_sessions, temp_screens,
                   delete_failures, last_response, protVars,
                   hubVars, jobVars>>

\* while self.is_running: ... video_windows = self._get_video_windows()
\* The thread ends when the flag is false; otherwise the resolver finds the
\* Safari/YouTube window or finds none (the tick is skipped).
LoopCheck(m) ==
    /\ monitors[m].pc = "loop"
    /\ IF ~monitors[m].is_running
       THEN SetMonitor(m, [monitors[m] EXCEPT !.pc = "done"])
       ELSE \E found \in BOOLEAN :
              IF found
              THEN SetMonitor(m, [monitors[m] EXCEPT !.pc = "capture"])
              ELSE SetMonitor(m, ToSleep(monitors[m]))
    /\ UNCHANGED <<now, active_monitoring_sessions, temp_screens,
                   delete_failures, last_response, protVars,
                   hubVars, jobVars>>

\* screenshot = self._capture_window(window): None skips the tick.
CaptureWindow(m) ==
    /\ monitors[m].pc = "capture"
    /\ \E captured \in BOOLEAN :
         IF captured
         THEN SetMonitor(m, [monitors[m] EXCEPT !.pc = "analyze"])
         ELSE SetMonitor(m, ToSleep(monitors[m]))
    /\ UNCHANGED <<now, active_monitoring_sessions, temp_screens,
                   delete_failures, last_response, protVars,
                   hubVars, jobVars>>

\* The cooldown test with the comparison turned around.
InCooldownInverted(current_time, last_detection_time) ==
    current_time - last_detection_time > detection_cooldown

\* The cooldown test of _analyze_screenshot.
InCooldown(current_time, last_detection_time) ==
    current_time - last_detection_time < detection_cooldown

\* cv2.imwrite(temp_path, screenshot): the file name is made of the session
\* id and int(current_time); writing an existing name overwrites it.
WriteScreenshot(files, sid, t, mtime) ==
    {f \in files : ~(f.sid = sid /\ f.t = t)}
        \cup {[sid |-> sid, t |-> t, mtime |-> mtime]}

\* A tick that is also skipped when exactly detection_cooldown seconds have
\* passed.
AnalyzeScreenshotInclusive(m) ==
    /\ monitors[m].pc = "analyze"
    /\ IF now - monitors[m].last_detection_time <= detection_cooldown
       THEN /\ SetMonitor(m, ToSleep(monitors[m]))
            /\ UNCHANGED temp_screens
       ELSE /\ SetMonitor(m, [monitors[m] EXCEPT !.pc = "classify",
                                                  !.current_time = now])
            /\ temp_screens' = WriteScreenshot(temp_screens, m, now, now)
    /\ UNCHANGED <<now, active_monitoring_sessions, delete_failures,
                   last_response, protVars, hubVars,
                   jobVars>>

\* _analyze_screenshot up to the classifier call: read the clock, return
\* when within the cooldown, else write the temporary screenshot.
AnalyzeScreenshot(m) ==
    /\ monitors[m].pc = "analyze"
    /\ IF InCooldown(now, monitors[m].last_detection_time)
       THEN /\ SetMonitor(m, ToSleep(monitors[m]))
            /\ UNCHANGED temp_screens
       ELSE /\ SetMonitor(m, [monitors[m] EXCEPT !.pc = "classify",
                                                  !.current_time = now])
            /\ temp_screens' = WriteScreenshot(temp_screens, m, now, now)
    /\ UNCHANGED <<now, active_monitoring_sessions, delete_failures,
                   last_response, protVars, hubVars,
                   jobVars>>

\* Outcomes of self.detector.analyze_image(temp_path)
ClassifierOutcomes ==
    {"error", "none", "negative", "smoking", "vaping", "both"}

Positive(outcome) == outcome \in {"smoking", "vaping", "both"}

\* The non-positive outcomes after which line 427 is reached.
ResetsCooldown(outcome) == outcome = "negative"

\* A removal that is never attempted.
RemoveFileSkipped(f, removed) ==
    UNCHANGED <<temp_screens, delete_failures>>

\* os.remove(path) inside try/except OSError: the file is gone, or the
\* call failed and the file stays.
RemoveFile(f, removed) ==
    IF removed
    THEN /\ temp_screens' = temp_screens \ {f}
         /\ UNCHANGED delete_failures
    ELSE /\ delete_failures < MaxDeleteFailures
         /\ delete_failures' = delete_failures + 1
         /\ UNCHANGED temp_screens

TempFile(m) == CHOOSE f \in temp_screens :
                  f.sid = m /\ f.t = monitors[m].current_time

\* The classifier call and the branches after it.  An error or an empty
\* result removes the temporary file and returns; a result without a match
\* removes the file and then sets last_detection_time; a match goes on to
\* the alert.
Classify(m) ==
    /\ monitors[m].pc = "classify"
    /\ \E outcome \in ClassifierOutcomes :
         IF Positive(outcome)
         THEN /\ SetMonitor(m, [monitors[m] EXCEPT !.pc = "alert"])
              /\ UNCHANGED <<temp_screens, delete_failures>>
         ELSE /\ \E removed \in BOOLEAN : RemoveFile(TempFile(m), removed)
              /\ SetMonitor(m, ToSleep(
                     IF ResetsCooldown(outcome)
                     THEN [monitors[m] EXCEPT !.last_detection_time =
                                                  monitors[m].current_time]
                     ELSE monitors[m]))
    /\ UNCHANGED <<now, active_monitoring_sessions, last_response,
                   protVars, hubVars, jobVars>>

\* self._send_self_alert(...): the alert is handed to broadcast_from_thread;
\* alerts records the tick times of the alerts this monitor has published.
SendSelfAlert(m) ==
    /\ monitors[m].pc = "alert"
    /\ SetMonitor(m, [monitors[m] EXCEPT
                         !.pc = "cleanup",
                         !.alerts = Append(@, monitors[m].current_time)])
    /\ broadcast_from_thread(Message(m, pub_count[m] + 1))
    /\ pub_count' = [pub_count EXCEPT ![m] = @ + 1]
    /\ UNCHANGED <<now, active_monitoring_sessions, temp_screens,
                   delete_failures, last_response, protVars,
                   event_loop, connections, ws_state,
                   broadcasts, sent, disconnected, finished,
                   jobVars>>

\* A cleanup whose slice starts one file too late.
FilesToDeleteOffByOne(files) ==
    IF Cardinality(files) > max_screenshots + 1
    THEN {D \in SUBSET files :
            /\ Cardinality(D) = Cardinality(files) - (max_screenshots + 1)
            /\ \A d \in D : \A k \in files \ D : d.mtime <= k.mtime}
    ELSE {{}}

\* The sets of files _cleanup_old_screenshots may pick for deletion: all but
\* the max_screenshots newest by modification time (files of equal time in
\* either order).
FilesToDelete(files) ==
    IF Cardinality(files) > max_screenshots
    THEN {D \in SUBSET files :
            /\ Cardinality(D) = Cardinality(files) - max_screenshots
            /\ \A d \in D : \A k \in files \ D : d.mtime <= k.mtime}
    ELSE {{}}

\* A cleanup pass that sorts oldest first and so deletes the newest files.
CleanupOldScreenshotsOldestFirst(m) ==
    /\ monitors[m].pc = "cleanup"
    /\ \E D \in SUBSET SessionFiles(m) :
         /\ Cardinality(D) =
                IF Cardinality(SessionFiles(m)) > max_screenshots
                THEN Cardinality(SessionFiles(m)) - max_screenshots
                ELSE 0
         /\ \A d \in D : \A k \in SessionFiles(m) \ D : d.mtime >= k.mtime
         /\ temp_screens' = temp_screens \ D
         /\ UNCHANGED delete_failures
    /\ SetMonitor(m, ToSleep([monitors[m] EXCEPT !.last_detection_time =
                                                    monitors[m].current_time]))
    /\ UNCHANGED <<now, active_monitoring_sessions, last_response,
                   protVars, hubVars, jobVars>>

\* self._cleanup_old_screenshots() followed by
\* self.last_detection_time = current_time (end of the positive branch).
CleanupOldScreenshots(m) ==
    /\ monitors[m].pc = "cleanup"
    /\ \E D \in FilesToDelete(SessionFiles(m)) : \E failed \in SUBSET D :
         /\ delete_failures + Cardinality(failed) <= MaxDeleteFailures
         /\ delete_failures' = delete_failures + Cardinality(failed)
         /\ temp_screens' = temp_screens \ (D \ failed)
    /\ SetMonitor(m, ToSleep([monitors[m] EXCEPT !.last_detection_time =
                                                    monitors[m].current_time]))
    /\ UNCHANGED <<now, active_monitoring_sessions, last_response,
                   protVars, hubVars, jobVars>>

\* time.sleep(5) returns.
Wake(m) ==
    /\ monitors[m].pc = "sleep"
    /\ now >= monitors[m].wake_at
    /\ SetMonitor(m, [monitors[m] EXCEPT !.pc = "loop", !.wake_at = 0])
    /\ UNCHANGED <<now, active_monitoring_sessions, temp_screens,
                   delete_failures, last_response, protVars,
                   hubVars, jobVars>>

\* time.sleep(5) has run its time: the clock reads wake_at at least (it is
\* followed up to limit) and the thread is back at the loop test.
SleepReturns(m, limit) ==
    /\ monitors[m].pc = "sleep"
    /\ now' = IF now >= monitors[m].wake_at THEN now
              ELSE IF monitors[m].wake_at <= limit THEN monitors[m].wake_at
              ELSE IF now <= limit THEN limit ELSE now
    /\ SetMonitor(m, [monitors[m] EXCEPT !.pc = "loop", !.wake_at = 0])
    /\ UNCHANGED <<active_monitoring_sessions, temp_screens,
                   delete_failures, last_response, protVars,
                   hubVars, jobVars>>

\* The wall clock moves on.
AdvanceTime(limit) ==
    /\ now + TimeStep <= limit
    /\ now' = now + TimeStep
    /\ UNCHANGED <<active_monitoring_sessions, monitors,
                   temp_screens, delete_failures,
                   last_response, protVars, hubVars,
                   jobVars>>

MonitorStep(m) ==
    \/ LoopCheck(m)
    \/ CaptureWindow(m)
    \/ AnalyzeScreenshot(m)
    \/ Classify(m)
    \/ SendSelfAlert(m)
    \/ CleanupOldScreenshots(m)
    \/ Wake(m)

\* A step of the monitor thread whose sleep always comes to its end.
LoopStep(m) ==
    \/ LoopCheck(m)
    \/ CaptureWindow(m)
    \/ AnalyzeScreenshot(m)
    \/ Classify(m)
    \/ SendSelfAlert(m)
    \/ CleanupOldScreenshots(m)
    \/ SleepReturns(m, MaxTime)

\* ------------------------------------------------------------------------
\* App protection (app_protection.py, api_server.py)
\* ------------------------------------------------------------------------
ProtectionThreadIds == 1..Len(protection_threads)

\* POST /protection/enable: register_installation writes the app_status row
\* (or fails: HTTP 500), then start_protection sets the flag and starts a
\* new protection_loop thread.
EnableAppProtection(d) ==
    /\ Len(protection_threads) < MaxProtThreads
    /\ \E registered \in BOOLEAN :
         IF registered
         THEN /\ app_status' = app_status \cup {d}
              /\ is_running' = TRUE
              /\ protection_threads' = Append(protection_threads, "check")
              /\ UNCHANGED stopped_threads
              /\ last_response' = Response("enable", d, TRUE, NoSession, "")
         ELSE /\ last_response' = Response("enable", d, FALSE, NoSession, "")
              /\ UNCHANGED protVars
    /\ UNCHANGED <<monVars, hubVars, jobVars>>

\* POST /protection/disable: stop_protection clears the flag and joins the
\* latest thread for at most five seconds; the join changes no state.
DisableAppProtection ==
    /\ is_running' = FALSE
    /\ stopped_threads' = stopped_threads \cup
           {i \in ProtectionThreadIds : protection_threads[i] # "done"}
    /\ last_response' = Response("disable", "", TRUE, NoSession, "")
    /\ UNCHANGED <<protection_threads, app_status, monVars, hubVars,
                   jobVars>>

\* AppProtectionSystem.get_protection_status(device_id)
ProtectionStatus(d) ==
    IF d \in app_status
    THEN (IF is_running THEN "active" ELSE "inactive")
    ELSE "not_registered"

\* GET /protection/status; a query answered exactly like the request before
\* it leaves the state as it is.
GetProtectionStatus(d) ==
    /\ last_response' = Response("status", d, TRUE, NoSession, ProtectionStatus(d))
    /\ last_response' # last_response
    /\ UNCHANGED <<protVars, monVars, hubVars, jobVars>>

\* protection_loop: while self.is_running: heartbeat, tamper check, sleep.
ProtectionLoopCheck(i) ==
    /\ protection_threads[i] = "check"
    /\ protection_threads' =
           [protection_threads EXCEPT ![i] = IF is_running THEN "sleep" ELSE "done"]
    /\ UNCHANGED <<is_running, app_status, stopped_threads, last_response,
                   monVars, hubVars, jobVars>>

\* time.sleep(self.heartbeat_interval) returns.
ProtectionWake(i) ==
    /\ protection_threads[i] = "sleep"
    /\ protection_threads' = [protection_threads EXCEPT ![i] = "check"]
    /\ UNCHANGED <<is_running, app_status, stopped_threads, last_response,
                   monVars, hubVars, jobVars>>

\* ------------------------------------------------------------------------
\* Alert hub: subscribers and the delivery loop (alerts.py, api_server.py)
\* ------------------------------------------------------------------------

\* list.remove(x): the first occurrence of x is taken out.
RemoveFirst(seq, x) ==
    LET at == {i \in 1..Len(seq) : seq[i] = x} IN
    IF at = {} THEN seq
    ELSE LET k == CHOOSE i \in at : \A j \in at : i <= j IN
         SubSeq(seq, 1, k - 1) \o SubSeq(seq, k + 1, Len(seq))

\* A disconnect without the membership test, which takes the last
\* connection out when the websocket is not in the list.
disconnect_unguarded(conns, ws) ==
    IF \E i \in 1..Len(conns) : conns[i] = ws
    THEN RemoveFirst(conns, ws)
    ELSE SubSeq(conns, 1, Len(conns) - 1)

\* AlertManager.disconnect(websocket)
disconnect(conns, ws) ==
    IF \E i \in 1..Len(conns) : conns[i] = ws
    THEN RemoveFirst(conns, ws)
    ELSE conns

\* disconnect applied to every websocket of the stale list, in order.
RECURSIVE DisconnectAll(_, _)
DisconnectAll(conns, stale) ==
    IF stale = <<>> THEN conns
    ELSE DisconnectAll(disconnect(conns, Head(stale)), Tail(stale))

Range(seq) == {seq[i] : i \in 1..Len(seq)}

Published == LET RECURSIVE Sum(_)
                 Sum(P) == IF P = {} THEN 0
                           ELSE LET p == CHOOSE q \in P : TRUE
                                IN pub_count[p] + Sum(P \ {p})
             IN Sum(Producers)

\* One ws.send_json(message) call, as the websocket sees it.
SendCall(message, ws) ==
    [msg |-> message, after_disconnect |-> ws \in disconnected]

\* lifespan: set_event_loop(loop) at server startup.
SetEventLoop ==
    /\ event_loop = "none"
    /\ event_loop' = "running"
    /\ UNCHANGED <<connections, ws_state, scheduled, broadcasts,
                   pub_count, sent, disconnected, finished,
                   last_response, monVars, protVars,
                   dropped, jobVars>>

\* alerts_ws: alert_manager.connect(websocket) accepts and appends.
AlertsWsConnect(ws) ==
    /\ event_loop = "running"
    /\ ws_state[ws] = "new"
    /\ ws_state' = [ws_state EXCEPT ![ws] = "open"]
    /\ connections' = Append(connections, ws)
    /\ UNCHANGED <<event_loop, scheduled, broadcasts, pub_count,
                   sent, disconnected, finished,
                   last_response, monVars, protVars,
                   dropped, jobVars>>

\* The client of an open websocket goes away.
ClientCloses(ws) ==
    /\ ws_state[ws] = "open"
    /\ ws_state' = [ws_state EXCEPT ![ws] = "closed"]
    /\ UNCHANGED <<event_loop, connections, scheduled, broadcasts,
                   pub_count, sent, disconnected, finished,
                   last_response, monVars, protVars,
                   dropped, jobVars>>

\* alerts_ws: receive_text raises WebSocketDisconnect and the handler calls
\* alert_manager.disconnect(websocket).
AlertsWsDisconnect(ws) ==
    /\ ws_state[ws] = "closed"
    /\ ws_state' = [ws_state EXCEPT ![ws] = "ended"]
    /\ connections' = disconnect(connections, ws)
    /\ disconnected' = disconnected \cup {ws}
    /\ UNCHANGED <<event_loop, scheduled, broadcasts, pub_count,
                   sent, finished, last_response, monVars,
                   protVars, dropped, jobVars>>

\* A broadcast coroutine that has returned.
Returned(message, snapshot, stale, raised) ==
    [msg |-> message, snapshot |-> snapshot, stale |-> stale,
     raised |-> raised]

\* AlertManager.broadcast(message) from its first statement to its first
\* suspension: stale = [], the snapshot list(self.connections), and the
\* first send_json call; with no connection it returns at once.  awaited
\* tells whether a caller awaits the coroutine.
BeginBroadcast(message, awaited) ==
    IF connections = <<>>
    THEN /\ finished' = finished \cup {Returned(message, <<>>, <<>>, FALSE)}
         /\ UNCHANGED <<broadcasts, sent>>
    ELSE /\ broadcasts' = broadcasts \cup
                {[msg |-> message, snapshot |-> connections, idx |-> 1,
                  stale |-> <<>>, awaited |-> awaited]}
         /\ sent' = [sent EXCEPT ![connections[1]] =
                        Append(@, SendCall(message, connections[1]))]
         /\ UNCHANGED finished

\* A session thread calls broadcast_from_thread(message).
BroadcastFromThread(p) ==
    /\ p # TestProducer
    /\ Published < MaxMessages
    /\ broadcast_from_thread(Message(p, pub_count[p] + 1))
    /\ pub_count' = [pub_count EXCEPT ![p] = @ + 1]
    /\ UNCHANGED <<event_loop, connections, ws_state, broadcasts,
                   sent, disconnected, finished,
                   last_response, monVars, protVars,
                   jobVars>>

\* The loop starts the coroutine scheduled first.
BroadcastStart ==
    /\ scheduled # <<>>
    /\ BeginBroadcast(Head(scheduled), FALSE)
    /\ scheduled' = Tail(scheduled)
    /\ UNCHANGED <<event_loop, connections, ws_state, pub_count,
                   disconnected, last_response, monVars,
                   protVars, dropped, jobVars>>

\* POST /alerts/test: await alert_manager.broadcast(message) inside the
\* request handler; the answer is sent when the coroutine has returned.
SendTestAlert ==
    /\ event_loop = "running"
    /\ Published < MaxMessages
    /\ BeginBroadcast(Message(TestProducer, pub_count[TestProducer] + 1), TRUE)
    /\ pub_count' = [pub_count EXCEPT ![TestProducer] = @ + 1]
    /\ last_response' = IF connections = <<>>
                        THEN Response("test_alert", "", TRUE, NoSession, "ok")
                        ELSE last_response
    /\ UNCHANGED <<event_loop, connections, ws_state, scheduled,
                   disconnected, monVars, protVars,
                   dropped, jobVars>>

\* What the caller of coroutine b has been answered once b has returned.
AnswerAfter(b) ==
    IF b.awaited
    THEN Response("test_alert", "", TRUE, NoSession, "ok")
    ELSE last_response

\* A broadcast without the try/except around send_json: the exception of a
\* failed send ends the coroutine.
SendJsonCompletesUncaught(b, delivered) ==
    LET ws == b.snapshot[b.idx] IN
    /\ b \in broadcasts
    /\ delivered => ws_state[ws] = "open"
    /\ IF ~delivered
       THEN /\ broadcasts' = broadcasts \ {b}
            /\ finished' = finished \cup
                   {Returned(b.msg, b.snapshot, b.stale, TRUE)}
            /\ last_response' = IF b.awaited
                                THEN Response("test_alert", "", FALSE, NoSession, "")
                                ELSE last_response
            /\ UNCHANGED <<connections, disconnected, sent>>
       ELSE IF b.idx < Len(b.snapshot)
       THEN /\ broadcasts' = (broadcasts \ {b}) \cup
                   {[b EXCEPT !.idx = b.idx + 1]}
            /\ sent' = [sent EXCEPT ![b.snapshot[b.idx + 1]] =
                           Append(@, SendCall(b.msg, b.snapshot[b.idx + 1]))]
            /\ UNCHANGED <<connections, disconnected, finished,
                           last_response>>
       ELSE /\ broadcasts' = broadcasts \ {b}
            /\ finished' = finished \cup
                   {Returned(b.msg, b.snapshot, b.stale, FALSE)}
            /\ last_response' = AnswerAfter(b)
            /\ UNCHANGED <<connections, disconnected, sent>>
    /\ UNCHANGED <<event_loop, ws_state, scheduled, pub_count,
                   monVars, protVars, dropped, jobVars>>

\* The pending send_json of coroutine b completes: it returns (delivered,
\* only to an open websocket) or raises (the websocket joins stale).  The
\* coroutine then makes its next send_json call, or, after the last
\* websocket of the snapshot, disconnects the stale ones and returns.
SendJsonCompletes(b, delivered) ==
    LET ws == b.snapshot[b.idx]
        stale == IF delivered THEN b.stale ELSE Append(b.stale, ws)
    IN
    /\ b \in broadcasts
    /\ delivered => ws_state[ws] = "open"
    /\ IF b.idx < Len(b.snapshot)
       THEN /\ broadcasts' = (broadcasts \ {b}) \cup
                   {[b EXCEPT !.idx = b.idx + 1, !.stale = stale]}
            /\ sent' = [sent EXCEPT ![b.snapshot[b.idx + 1]] =
                           Append(@, SendCall(b.msg, b.snapshot[b.idx + 1]))]
            /\ UNCHANGED <<connections, disconnected, finished,
                           last_response>>
       ELSE /\ broadcasts' = broadcasts \ {b}
            /\ connections' = DisconnectAll(connections, stale)
            /\ disconnected' = disconnected \cup Range(stale)
            /\ finished' = finished \cup
                   {Returned(b.msg, b.snapshot, stale, FALSE)}
            /\ last_response' = AnswerAfter(b)
            /\ UNCHANGED sent
    /\ UNCHANGED <<event_loop, ws_state, scheduled, pub_count,
                   monVars, protVars, dropped, jobVars>>

\* ------------------------------------------------------------------------
\* Batch jobs (api_server.py)
\* ------------------------------------------------------------------------

\* raise HTTPException(status_code, detail)
HTTPException(status_code, detail) ==
    [status_code |-> status_code, detail |-> detail]

\* An exception that is no HTTPException, with its message.
OtherException(message) == [status_code |-> 0, detail |-> message]

\* except Exception as e: raise HTTPException(status_code=500, detail=str(e))
\* around the body of a request handler; an HTTPException raised in the body
\* is an Exception and is caught as well.
Reraised(e) == HTTPException(500, e.detail)

\* The answer of a request whose handler ends with exception e.
ErrorResponse(op, j, e) ==
    JobResponse(op, e.status_code, j, "", 0, 0, "", e.detail)

\* A job id that no request has drawn yet.
Unused(j) == j \notin DOMAIN batch_jobs /\ workers[j].kind = "none"

\* INSERT INTO batch_jobs (id, status, total_images): processed_images takes
\* its default 0, completed_at and error_message are NULL.
NewRow(total) ==
    [status |-> "processing", total_images |-> total, processed_images |-> 0,
     error_message |-> "", completed_at |-> FALSE]

\* background_tasks.add_task(...): a worker over n items, not started yet.
NewWorker(kind, n) ==
    [kind |-> kind, pc |-> "scheduled", items |-> n, idx |-> 0,
     processed |-> 0, engine_error |-> FALSE, handler_raised |-> FALSE,
     failures |-> 0, uncounted |-> 0]

\* POST /detect/batch with `files` uploaded files of which `images` have an
\* image content type.  More than BatchLimit files raise a 400 inside the
\* try block.  The row is inserted with total_images = len(files) and
\* committed; the image files are copied to temp_files; the worker is added
\* over temp_files and the answer reports len(temp_files).  The INSERT or a
\* file copy may raise.
DetectBatchImages(j, files, images, outcome) ==
    /\ Unused(j)
    /\ images <= files
    /\ IF files > BatchLimit
       THEN /\ job_response' = ErrorResponse("detect_batch", "",
                  Reraised(HTTPException(400, "Maximum 50 files")))
            /\ UNCHANGED <<batch_jobs, workers, returned>>
       ELSE IF outcome = "insert_raises"
       THEN /\ job_response' = ErrorResponse("detect_batch", "",
                  Reraised(OtherException("insert")))
            /\ UNCHANGED <<batch_jobs, workers, returned>>
       ELSE /\ batch_jobs' = batch_jobs @@ (j :> NewRow(files))
            /\ IF outcome = "copy_raises" /\ images > 0
               THEN /\ job_response' = ErrorResponse("detect_batch", "",
                          Reraised(OtherException("copy")))
                    /\ UNCHANGED <<workers, returned>>
               ELSE /\ workers' = [workers EXCEPT ![j] =
                                      NewWorker("batch", images)]
                    /\ returned' = returned \cup {j}
                    /\ job_response' = JobResponse("detect_batch", 200, j,
                          "processing", images, 0, "", "")
    /\ UNCHANGED <<job_results, last_response, monVars, protVars, hubVars>>

\* POST /detect/apple-photos: a job id is drawn, the worker is added and
\* the id is answered; no row is written by the request.
DetectApplePhotos(j) ==
    /\ Unused(j)
    /\ workers' = [workers EXCEPT ![j] = NewWorker("photos", 0)]
    /\ returned' = returned \cup {j}
    /\ job_response' = JobResponse("detect_apple_photos", 200, j,
                                   "processing", 0, 0, "", "")
    /\ UNCHANGED <<batch_jobs, job_results, last_response, monVars,
                   protVars, hubVars>>

\* An except block that also writes the progress back to 0.
MarkFailedResetsProgress(rows, j, handler_ok) ==
    IF handler_ok /\ j \in DOMAIN rows
    THEN [rows EXCEPT ![j].status = "failed", ![j].error_message = "error",
                      ![j].processed_images = 0]
    ELSE rows

\* The outer except of a worker: a new connection, UPDATE batch_jobs SET
\* status = 'failed', error_message = str(e) WHERE id = job_id, commit.  The
\* UPDATE changes no row when the table has none for the id; when the
\* handler itself raises, nothing is written.
MarkFailed(rows, j, handler_ok) ==
    IF handler_ok /\ j \in DOMAIN rows
    THEN [rows EXCEPT ![j].status = "failed", ![j].error_message = "error"]
    ELSE rows

\* The worker of job j ends with an engine-level error.
EngineError(j, handler_ok) ==
    /\ batch_jobs' = MarkFailed(batch_jobs, j, handler_ok)
    /\ workers' = [workers EXCEPT ![j].pc = "raised",
                                  ![j].engine_error = TRUE,
                                  ![j].handler_raised = ~handler_ok]
    /\ UNCHANGED job_results

\* What analyze_image and the statements after it do with one item:
\* a result with or without a detection, an error returned by
\* analyze_image, an exception raised before the item is counted, and (for
\* an uploaded batch) such an exception followed by one of the per-item
\* handler's own os.remove.
ItemOutcomes(kind) ==
    {"positive", "negative", "error", "raises"} \cup
    (IF kind = "batch" THEN {"handler_raises"} ELSE {})

\* A counter that counts one item twice.
ProcessedAfterTwice(processed, outcome) ==
    IF outcome \in {"positive", "negative", "error"}
    THEN processed + 2
    ELSE processed

\* processed += 1, reached unless an exception was raised before it.
ProcessedAfter(processed, outcome) ==
    IF outcome \in {"positive", "negative", "error"}
    THEN processed + 1
    ELSE processed

\* A loop that stores a row for an item whose classification failed.
ResultsAfterKeepsErrors(results, outcome) ==
    IF outcome \in {"positive", "negative", "error"}
    THEN Append(results, [cigarette_detected |-> outcome = "positive"])
    ELSE results

\* INSERT INTO job_results, executed if analyze_image returned no error.
ResultsAfter(results, outcome) ==
    IF outcome \in {"positive", "negative"}
    THEN Append(results, [cigarette_detected |-> outcome = "positive"])
    ELSE results

\* An UPDATE of the progress that writes the count of the stored results.
UpdateProgressFromResults(rows, j, processed, results) ==
    [rows EXCEPT ![j].processed_images = Len(results)]

\* UPDATE batch_jobs SET processed_images = processed WHERE id = job_id
UpdateProgress(rows, j, processed, results) ==
    [rows EXCEPT ![j].processed_images = processed]

\* A worker that ends its loop without marking the job.
MarkCompletedSkipped(rows, j) == rows

\* UPDATE batch_jobs SET status = 'completed', completed_at =
\* CURRENT_TIMESTAMP WHERE id = job_id
MarkCompleted(rows, j) ==
    [rows EXCEPT ![j].status = "completed", ![j].completed_at = TRUE]

\* process_batch_job up to its loop: sqlite3.connect and processed = 0.
\* process_apple_photos_job up to its loop: get_apple_photos, the exception
\* raised for an empty list, the INSERT of the row with total_images =
\* len(photos), processed = 0.
WorkerBegin(j) ==
    /\ workers[j].pc = "scheduled"
    /\ \/ \E handler_ok \in BOOLEAN : EngineError(j, handler_ok)
       \/ /\ workers[j].kind = "batch"
          /\ workers' = [workers EXCEPT ![j].pc = "loop"]
          /\ UNCHANGED <<batch_jobs, job_results>>
       \/ /\ workers[j].kind = "photos"
          /\ \E photos \in 1..MaxPhotos :
               /\ batch_jobs' = batch_jobs @@ (j :> NewRow(photos))
               /\ workers' = [workers EXCEPT ![j].pc = "loop",
                                             ![j].items = photos]
          /\ UNCHANGED job_results
    /\ UNCHANGED <<returned, job_response, last_response, monVars, protVars,
                   hubVars>>

\* One iteration of the worker's loop.  A counted item is committed with
\* the new progress; an item that raised is printed and left out.
WorkerItem(j) ==
    LET w == workers[j] IN
    /\ w.pc = "loop"
    /\ w.idx < w.items
    /\ \E outcome \in ItemOutcomes(w.kind) :
         LET processed == ProcessedAfter(w.processed, outcome)
             results == ResultsAfter(job_results[j], outcome)
             next == [w EXCEPT
                        !.idx = w.idx + 1,
                        !.processed = processed,
                        !.failures = IF outcome = "error" THEN @ + 1 ELSE @,
                        !.uncounted = IF outcome \in {"raises",
                                                      "handler_raises"}
                                      THEN @ + 1 ELSE @]
         IN
         IF outcome = "handler_raises"
         THEN \E handler_ok \in BOOLEAN :
                /\ batch_jobs' = MarkFailed(batch_jobs, j, handler_ok)
                /\ workers' = [workers EXCEPT ![j] =
                                  [next EXCEPT !.pc = "raised",
                                               !.engine_error = TRUE,
                                               !.handler_raised =
                                                   ~handler_ok]]
                /\ UNCHANGED job_results
         ELSE IF outcome = "raises"
         THEN /\ workers' = [workers EXCEPT ![j] = next]
              /\ UNCHANGED <<batch_jobs, job_results>>
         ELSE /\ workers' = [workers EXCEPT ![j] = next]
              /\ job_results' = [job_results EXCEPT ![j] = results]
              /\ batch_jobs' = UpdateProgress(batch_jobs, j, processed,
                                              results)
    /\ UNCHANGED <<returned, job_response, last_response, monVars, protVars,
                   hubVars>>

\* A worker that goes on to mark the job completed after its except block
\* has run.
WorkerEndAfterExcept(j) ==
    LET w == workers[j] IN
    /\ w.pc \in {"loop", "raised"}
    /\ w.idx = w.items
    /\ \/ \E handler_ok \in BOOLEAN : w.pc = "loop" /\ EngineError(j, handler_ok)
       \/ /\ j \in DOMAIN batch_jobs
          /\ batch_jobs' = MarkCompleted(batch_jobs, j)
          /\ workers' = [workers EXCEPT ![j].pc = "done"]
          /\ UNCHANGED job_results
    /\ UNCHANGED <<returned, job_response, last_response, monVars, protVars,
                   hubVars>>

\* After the loop: the job is marked completed and committed, or the
\* UPDATE or the commit raises and the outer except takes over.
WorkerEnd(j) ==
    LET w == workers[j] IN
    /\ w.pc = "loop"
    /\ w.idx = w.items
    /\ \/ \E handler_ok \in BOOLEAN : EngineError(j, handler_ok)
       \/ /\ batch_jobs' = MarkCompleted(batch_jobs, j)
          /\ workers' = [workers EXCEPT ![j].pc = "done"]
          /\ UNCHANGED job_results
    /\ UNCHANGED <<returned, job_response, last_response, monVars, protVars,
                   hubVars>>

WorkerStep(j) == WorkerBegin(j) \/ WorkerItem(j) \/ WorkerEnd(j)

\* GET /jobs/{job_id}/status: the row is read; with no row the 404 is
\* raised inside the try block; otherwise status, total_images and
\* processed_images are answered, and error_message if it is not empty.
GetJobStatus(j) ==
    /\ job_response' =
         IF j \notin DOMAIN batch_jobs
         THEN ErrorResponse("status", j,
                            Reraised(HTTPException(404, "Job not found")))
         ELSE JobResponse("status", 200, j, batch_jobs[j].status,
                          batch_jobs[j].total_images,
                          batch_jobs[j].processed_images,
                          batch_jobs[j].error_message, "")
    /\ job_response' # job_response
    /\ UNCHANGED <<batch_jobs, job_results, workers, returned,
                   last_response, monVars, protVars, hubVars>>

\* The number of rows of results with cigarette_detected set.
TotalDetected(results) ==
    Cardinality({i \in 1..Len(results) : results[i].cigarette_detected})

\* (total_detected / len(results) * 100) if results else 0, as the fraction
\* num / den.
DetectionRate(total_detected, results) ==
    IF Len(results) = 0
    THEN [num |-> 0, den |-> 1]
    ELSE [num |-> total_detected * 100, den |-> Len(results)]

\* What GET /jobs/{job_id}/results answered: the HTTP status code, the
\* detail of an error, the status the handler read in the job's row ("" with
\* no row), and the results with their summary.
ResultsResponse(j, code, detail, seen, results) ==
    [op |-> "results", code |-> code, job_id |-> j, detail |-> detail,
     seen |-> seen, results |-> results,
     summary |-> [total_images |-> Len(results),
                  images_with_cigarettes |-> TotalDetected(results),
                  detection_rate |->
                      DetectionRate(TotalDetected(results), results)]]

\* The answer of a results request whose handler ends with exception e.
ResultsError(j, e, seen) ==
    ResultsResponse(j, e.status_code, e.detail, seen, <<>>)

\* GET /jobs/{job_id}/results: the status of the row is read; with no row a
\* 404 and with a status other than completed a 400 are raised inside the
\* try block; otherwise the rows of job_results are answered with the
\* summary computed over them.
GetJobResults(j) ==
    /\ job_response' =
         IF j \notin DOMAIN batch_jobs
         THEN ResultsError(j, Reraised(HTTPException(404, "Job not found")),
                           "")
         ELSE IF batch_jobs[j].status # "completed"
         THEN ResultsError(j,
                  Reraised(HTTPException(400, "Job not completed yet")),
                  batch_jobs[j].status)
         ELSE ResultsResponse(j, 200, "", batch_jobs[j].status,
                              job_results[j])
    /\ job_response' # job_response
    /\ UNCHANGED <<batch_jobs, job_results, workers, returned,
                   last_response, monVars, protVars, hubVars>>

\* The submit requests with the inputs the model draws.
Submit(j) ==
    \/ \E files \in (1..MaxFiles) \cup {BatchLimit + 1} :
         \E images \in 0..MaxFiles :
           \E outcome \in {"ok", "insert_raises", "copy_raises"} :
             DetectBatchImages(j, files, images, outcome)
    \/ DetectApplePhotos(j)

\* ------------------------------------------------------------------------
\* Specifications
\* ------------------------------------------------------------------------
\* The session registry with its monitor threads.
Next ==
    \/ \E d \in Devices : StartMonitoring(d)
    \/ \E d \in Devices : StopMonitoring(d)
    \/ \E m \in MonitorIds : MonitorStep(m)
    \/ AdvanceTime(MaxTime)

Spec == Init /\ [][Next]_vars

\* One session followed over TickHorizon seconds.
NextTick ==
    \/ \E d \in Devices : monitors = <<>> /\ StartMonitoring(d)
    \/ \E d \in Devices : StopMonitoring(d)
    \/ \E m \in MonitorIds : MonitorStep(m)
    \/ AdvanceTime(TickHorizon)

SpecTick == Init /\ [][NextTick]_vars

\* The stop and status requests of both subsystems.
NextStop ==
    \/ \E d \in Devices : Len(monitors) < MaxStopSessions /\ StartMonitoring(d)
    \/ \E d \in Devices : StopMonitoring(d)
    \/ \E m \in MonitorIds : MonitorStep(m)
    \/ AdvanceTime(MaxTime)
    \/ \E d \in Devices : EnableAppProtection(d)
    \/ DisableAppProtection
    \/ \E d \in Devices : GetProtectionStatus(d)
    \/ \E i \in ProtectionThreadIds : ProtectionLoopCheck(i)
    \/ \E i \in ProtectionThreadIds : ProtectionWake(i)

SpecStop == Init /\ [][NextStop]_vars

\* The alert hub with its subscribers and producers.
NextHub ==
    \/ SetEventLoop
    \/ \E ws \in WebSockets : AlertsWsConnect(ws)
    \/ \E ws \in WebSockets : ClientCloses(ws)
    \/ \E ws \in WebSockets : AlertsWsDisconnect(ws)
    \/ \E p \in HubSessions : BroadcastFromThread(p)
    \/ BroadcastStart
    \/ SendTestAlert
    \/ \E b \in broadcasts : \E delivered \in BOOLEAN :
           SendJsonCompletes(b, delivered)

SpecHub == Init /\ [][NextHub]_vars

\* The batch job engine: submit requests, workers, status requests.
NextJobs ==
    \/ \E j \in JobIds : Submit(j)
    \/ \E j \in JobIds : WorkerBegin(j)
    \/ \E j \in JobIds : WorkerItem(j)
    \/ \E j \in JobIds : WorkerEnd(j)
    \/ \E j \in JobIds : GetJobStatus(j)
    \/ \E j \in JobIds : GetJobResults(j)

SpecJobs == Init /\ [][NextJobs]_vars

\* The submit requests and the workers, every worker that can take a step
\* eventually taking one: a background task, once added, runs to its end.
NextWorkers ==
    \/ \E j \in JobIds : Submit(j)
    \/ \E j \in JobIds : WorkerBegin(j)
    \/ \E j \in JobIds : WorkerItem(j)
    \/ \E j \in JobIds : WorkerEnd(j)

SpecJobsFair ==
    Init /\ [][NextWorkers]_vars /\ \A j \in JobIds : WF_vars(WorkerStep(j))

\* One session whose thread is scheduled again and again: a thread that
\* can take a step eventually takes one, and every sleep returns.
NextLoop ==
    \/ \E d \in Devices : monitors = <<>> /\ StartMonitoring(d)
    \/ \E d \in Devices : StopMonitoring(d)
    \/ \E m \in MonitorIds : LoopStep(m)
    \/ AdvanceTime(MaxTime)

SpecLoopFair ==
    Init /\ [][NextLoop]_vars
         /\ WF_vars(\E m \in MonitorIds : LoopStep(m))

\* One session in which every tick finds its window, captures it and is
\* classified as a match.
NextAllPositive ==
    \/ \E d \in Devices : monitors = <<>> /\ StartMonitoring(d)
    \/ \E d \in Devices : StopMonitoring(d)
    \/ \E m \in MonitorIds : LoopCheck(m) /\ monitors'[m].pc # "sleep"
    \/ \E m \in MonitorIds : CaptureWindow(m) /\ monitors'[m].pc = "analyze"
    \/ \E m \in MonitorIds : AnalyzeScreenshot(m)
    \/ \E m \in MonitorIds : Classify(m) /\ monitors'[m].pc = "alert"
    \/ \E m \in MonitorIds : SendSelfAlert(m)
    \/ \E m \in MonitorIds : CleanupOldScreenshots(m)
    \/ \E m \in MonitorIds : Wake(m)
    \/ AdvanceTime(TickHorizon)

SpecAllPositive == Init /\ [][NextAllPositive]_vars

\* The subscriber whose send_json calls never come to an end.
StuckWebSocket == "w1"

\* The pending send_json of coroutine b completes, b not waiting for the
\* stuck subscriber.
SendJsonCompletesUnlessStuck ==
    \E b \in broadcasts : \E delivered \in BOOLEAN :
        /\ b.snapshot[b.idx] # StuckWebSocket
        /\ SendJsonCompletes(b, delivered)

\* The alert hub with one subscriber whose sends neither return nor raise;
\* the event loop starts every scheduled coroutine and every other send
\* comes to an end.
NextHubStuck ==
    \/ SetEventLoop
    \/ \E ws \in WebSockets : AlertsWsConnect(ws)
    \/ \E ws \in WebSockets \ {StuckWebSocket} : ClientCloses(ws)
    \/ \E ws \in WebSockets : AlertsWsDisconnect(ws)
    \/ \E p \in HubSessions : BroadcastFromThread(p)
    \/ BroadcastStart
    \/ SendTestAlert
    \/ SendJsonCompletesUnlessStuck

SpecHubStuck ==
    Init /\ [][NextHubStuck]_vars
         /\ WF_vars(BroadcastStart)
         /\ WF_vars(SendJsonCompletesUnlessStuck)

\* ------------------------------------------------------------------------
\* Properties
\* ------------------------------------------------------------------------

\* C1: any two alerts published by one monitor have tick times that differ
\* by at least detection_cooldown.
AlertsSeparatedByCooldown ==
    \A m \in MonitorIds :
      \A i, j \in 1..Len(monitors[m].alerts) :
        i < j => monitors[m].alerts[j] - monitors[m].alerts[i]
                     >= detection_cooldown

\* A monitor has published two alerts.
TwoAlertsPublished ==
    \E m \in MonitorIds : Len(monitors[m].alerts) >= 2

\* C2: the last-alert timestamp of a session is reset only by a promotion:
\* once set, it is the tick time of an alert the session has published (so
\* a matched event arriving detection_cooldown after the last alert, or
\* before any alert, is never suppressed).
LastAlertTimeResetOnlyByPromotion ==
    \A m \in MonitorIds :
      monitors[m].last_detection_time # 0 =>
        \E i \in 1..Len(monitors[m].alerts) :
          monitors[m].alerts[i] = monitors[m].last_detection_time

\* Inside a tick: the temporary screenshot is written and the tick has not
\* returned yet.
MidTick(m) == monitors[m].pc \in {"classify", "alert", "cleanup"}

AtMostOneRunningLoopPerDevice ==
    \A d \in Devices :
      Cardinality({m \in MonitorIds :
                     monitors[m].device = d /\ monitors[m].is_running}) <= 1

\* The stop request for monitor m has returned with success.
StopReturned(m) ==
    /\ ~monitors[m].is_running
    /\ active_monitoring_sessions[monitors[m].device] # m

\* C5: once the stop request of a session has returned, its thread neither
\* calls the classifier nor publishes an alert.
NoClassifyAfterStopReturned ==
    [][\A m \in MonitorIds :
         (StopReturned(m) /\ monitors[m].pc \in {"classify", "alert"})
             => monitors'[m].pc = monitors[m].pc]_vars

BroadcastSurvivesFailedSubscriber ==
    /\ \A f \in finished :
         /\ ~f.raised
         /\ \A i \in 1..Len(f.snapshot) :
              \E k \in 1..Len(sent[f.snapshot[i]]) :
                 sent[f.snapshot[i]][k].msg = f.msg
         /\ \A ws \in Range(f.stale) : ws \notin Range(connections)
    /\ \A ws \in WebSockets :
         (ws_state[ws] \in {"open", "closed"} /\ ws \notin disconnected)
             => ws \in Range(connections)

\* A broadcast whose first subscriber failed has delivered to its second
\* one, and a later broadcast has reached that remaining subscriber alone.
FailedSubscriberRemovedOthersServed ==
    \E f \in finished : \E g \in finished :
      /\ Len(f.snapshot) = 2
      /\ f.stale = <<f.snapshot[1]>>
      /\ g.msg # f.msg
      /\ g.snapshot = <<f.snapshot[2]>>
      /\ g.stale = <<>>

\* C8: no publisher waits for a subscriber: no broadcast coroutine with a
\* pending send is awaited by the caller that published its alert.
PublishNeverWaitsForSubscribers ==
    \A b \in broadcasts : ~b.awaited

\* C9: every websocket sees the alerts of one session in the order the
\* session published them.
SessionAlertsSentInOrder ==
    \A ws \in WebSockets :
      \A i, j \in 1..Len(sent[ws]) :
        (/\ i < j
         /\ sent[ws][i].msg.producer = sent[ws][j].msg.producer
         /\ sent[ws][i].msg.producer # TestProducer)
            => sent[ws][i].msg.seq < sent[ws][j].msg.seq

\* C10: no send_json call is made to a websocket after disconnect has
\* returned for it.
NoSendAfterDisconnect ==
    \A ws \in WebSockets :
      \A i \in 1..Len(sent[ws]) : ~sent[ws][i].after_disconnect

\* C11: a message published from a thread while no loop is running changes
\* nothing of the hub (subscribers, queue, coroutines, sends, answers) and
\* is dropped: it is never queued, never in a coroutine and never sent.
NoLoopPublishIsSafeNoOp ==
    /\ [](\A m \in dropped :
            /\ \A i \in 1..Len(scheduled) : scheduled[i] # m
            /\ \A b \in broadcasts : b.msg # m
            /\ \A r \in finished : r.msg # m
            /\ \A ws \in WebSockets :
                  \A i \in 1..Len(sent[ws]) : sent[ws][i].msg # m)
    /\ [][\A p \in HubSessions :
             (event_loop # "running" /\ pub_count'[p] = pub_count[p] + 1)
             => UNCHANGED <<event_loop, connections, ws_state, scheduled,
                            broadcasts, sent, disconnected, finished,
                            last_response>>]_vars

\* C11 witness: a message was dropped, and later, with the loop running,
\* another message has been sent to a subscriber.
DroppedThenLaterDelivery ==
    /\ dropped # {}
    /\ event_loop = "running"
    /\ \E ws \in WebSockets : sent[ws] # <<>>

\* C12: disconnect of a websocket that is not in connections returns
\* connections as it is, disconnect twice equals disconnect once, and the
\* handler's disconnect of a websocket that a broadcast has already removed
\* as stale changes nothing.
DisconnectIsIdempotent ==
    /\ [](\A ws \in WebSockets :
            LET once == disconnect(connections, ws) IN
            /\ disconnect(once, ws) = once
            /\ (ws \notin Range(connections) => once = connections))
    /\ [][\A ws \in WebSockets :
             (ws \in disconnected /\ ws_state[ws] = "closed"
                 /\ ws_state'[ws] = "ended")
             => connections' = connections]_vars

\* C12 witness: a websocket removed as stale by a broadcast has also been
\* disconnected by its handler, while another subscriber is connected.
DisconnectedTwice ==
    \E ws \in WebSockets :
        /\ ws_state[ws] = "ended"
        /\ \E r \in finished : ws \in Range(r.stale)
        /\ connections # <<>>

\* C13: while the worker of an uploaded batch has not started, the job's
\* row exists with status processing, processed_images 0 and total_images
\* equal to the number of items handed to the worker.
SubmitPersistsJobOverItsItems ==
    \A j \in returned :
        (workers[j].kind = "batch" /\ workers[j].pc = "scheduled")
        => /\ j \in DOMAIN batch_jobs
           /\ batch_jobs[j].status = "processing"
           /\ batch_jobs[j].processed_images = 0
           /\ batch_jobs[j].total_images = workers[j].items

\* C14: processed_images of a row never exceeds its total_images.
ProcessedNeverExceedsTotal ==
    \A j \in DOMAIN batch_jobs :
        batch_jobs[j].processed_images <= batch_jobs[j].total_images

\* C14 witness: a job whose every file has been counted.
ProcessedReachedTotal ==
    \E j \in DOMAIN batch_jobs :
        /\ batch_jobs[j].total_images >= 2
        /\ batch_jobs[j].processed_images = batch_jobs[j].total_images

\* C15: no step lowers processed_images of a row, and the processed count
\* of the latest status answer for a job is at most the count the row holds
\* now, so that a later status answer cannot report less.
ProcessedNeverDecreases ==
    /\ [][\A j \in DOMAIN batch_jobs :
             /\ j \in DOMAIN batch_jobs'
             /\ batch_jobs'[j].processed_images >=
                    batch_jobs[j].processed_images]_vars
    /\ []((job_response.op = "status" /\ job_response.code = 200)
            => job_response.processed <=
                   batch_jobs[job_response.job_id].processed_images)

\* C15 witness: a status answer reported progress, the job has progressed
\* since, and its worker has ended with an engine-level error.
ProgressSeenThenMore ==
    /\ job_response.op = "status"
    /\ job_response.code = 200
    /\ job_response.processed >= 1
    /\ batch_jobs[job_response.job_id].processed_images >
           job_response.processed
    /\ batch_jobs[job_response.job_id].status = "failed"

\* C16: a worker that has reached the end of its items has marked the job
\* completed, has counted every item that raised nothing (the ones whose
\* classification returned an error included) and has stored one result for
\* every counted item but those.
ItemErrorDoesNotAbortBatch ==
    \A j \in JobIds :
        workers[j].pc = "done"
        => /\ batch_jobs[j].status = "completed"
           /\ workers[j].idx = workers[j].items
           /\ batch_jobs[j].processed_images =
                  workers[j].items - workers[j].uncounted
           /\ Len(job_results[j]) =
                  workers[j].items - workers[j].uncounted
                      - workers[j].failures

\* C16 witness: an uploaded batch with one item whose classification
\* failed ended completed, every item counted, one result fewer than items.
BatchCompletedWithOneItemError ==
    \E j \in JobIds :
        /\ workers[j].kind = "batch"
        /\ workers[j].pc = "done"
        /\ workers[j].items >= 2
        /\ workers[j].failures = 1
        /\ workers[j].uncounted = 0
        /\ batch_jobs[j].status = "completed"
        /\ batch_jobs[j].processed_images = workers[j].items
        /\ Len(job_results[j]) = workers[j].items - 1

\* Whether the worker of job j has ended, either way.
Ended(j) == workers[j].pc \in {"done", "raised"}

Completed(j) == j \in DOMAIN batch_jobs /\ batch_jobs[j].status = "completed"

\* C18: a job is completed exactly when its worker has reached the end of
\* its items without an engine-level error; a job whose worker met such an
\* error is never completed; and every scheduled worker leads to an
\* engine-level error or to the completed job.
CompletedIffWorkerReachedEnd ==
    /\ [](\A j \in JobIds :
            /\ Completed(j) <=> (workers[j].pc = "done"
                                    /\ workers[j].idx = workers[j].items
                                    /\ ~workers[j].engine_error)
            /\ workers[j].engine_error => ~Completed(j))
    /\ [][\A j \in JobIds :
             workers[j].engine_error => workers'[j].engine_error]_vars
    /\ \A j \in JobIds :
          (workers[j].kind # "none")
              ~> (workers[j].engine_error \/ Completed(j))

\* C18 witness: one job completed and another ended by an engine-level
\* error.
OneCompletedOneFailed ==
    \E j, k \in JobIds :
        /\ Completed(j)
        /\ workers[k].engine_error
        /\ k \in DOMAIN batch_jobs
        /\ batch_jobs[k].status = "failed"

\* C19: a job id answered by a submit request whose worker met an
\* engine-level error, the except block having run to its end, has a row
\* with status failed and an error message.
EngineErrorMarksJobFailed ==
    \A j \in returned :
        (workers[j].engine_error /\ ~workers[j].handler_raised)
        => /\ j \in DOMAIN batch_jobs
           /\ batch_jobs[j].status = "failed"
           /\ batch_jobs[j].error_message # ""

\* C20: a status request for an id without a row is answered 404 "Job not
\* found", and one for an id with a row is answered 200 with what the row
\* holds or held.
UnknownJobIsNotFound ==
    job_response.op = "status"
    => IF job_response.job_id \notin DOMAIN batch_jobs
       THEN /\ job_response.code = 404
            /\ job_response.detail = "Job not found"
       ELSE job_response.code = 200
               => job_response.total =
                      batch_jobs[job_response.job_id].total_images

\* C21: a results request that read a status other than completed is
\* answered with the client error 400 "Job not completed yet", and one that
\* read completed is answered 200 with all the rows of the job.
ResultsNeedCompletedJob ==
    (job_response.op = "results" /\ job_response.seen # "")
    => IF job_response.seen = "completed"
       THEN /\ job_response.code = 200
            /\ job_response.results = job_results[job_response.job_id]
       ELSE /\ job_response.code = 400
            /\ job_response.detail = "Job not completed yet"

\* C22: the detection_rate answered for a completed job is the number of
\* its rows with a detection, times 100, over the total_images of the job,
\* and 0 when total_images is 0.
DetectionRateIsOverJobTotal ==
    (job_response.op = "results" /\ job_response.code = 200)
    => LET rate == job_response.summary.detection_rate
           total == batch_jobs[job_response.job_id].total_images
           positives == TotalDetected(job_results[job_response.job_id])
       IN IF total = 0
          THEN rate.num = 0
          ELSE rate.num * total = positives * 100 * rate.den

\* Whether the row of job j holds a final status.
Terminal(j) ==
    j \in DOMAIN batch_jobs /\ batch_jobs[j].status \in {"completed", "failed"}

\* C28: once the row of a job says completed or failed, no step of a worker
\* or of a request changes its status or its processed_images.
TerminalStatusIsFinal ==
    [][\A j \in JobIds :
          Terminal(j)
          => /\ j \in DOMAIN batch_jobs'
             /\ batch_jobs'[j].status = batch_jobs[j].status
             /\ batch_jobs'[j].processed_images =
                    batch_jobs[j].processed_images]_vars

\* C28 witness: a completed job has been asked for its results, and
\* another job is failed.
TerminalJobsQueried ==
    /\ job_response.op = "results"
    /\ job_response.code = 200
    /\ \E k \in JobIds : Terminal(k) /\ batch_jobs[k].status = "failed"

\* C29: no status request for a job id that a submit request has answered
\* is answered "Job not found".
ReturnedJobIsKnown ==
    (job_response.op = "status" /\ job_response.job_id \in returned)
    => job_response.detail # "Job not found"

\* The files of session m after the step.
SessionFilesAfter(m) == {f \in temp_screens' : f.sid = m}

\* Whether the step is the cleanup pass of monitor m.
CleanupPass(m) ==
    monitors[m].pc = "cleanup" /\ monitors'[m].pc # "cleanup"

\* How many files of the set are newer than f.
Newer(files, f) == Cardinality({k \in files : k.mtime > f.mtime})

Unpromoted(m) ==
    {f \in SessionFiles(m) :
        \A i \in 1..Len(monitors[m].alerts) : monitors[m].alerts[i] # f.t}

LoopEndsOnlyAfterStop ==
    /\ [](\A m \in MonitorIds :
            monitors[m].pc = "done" => ~monitors[m].is_running)
    /\ \A m \in {NoSession + 1} :
         /\ (m \in MonitorIds /\ monitors[m].pc \notin {"loop", "done"})
                ~> (m \in MonitorIds /\ monitors[m].pc = "loop")
         /\ (m \in MonitorIds /\ monitors[m].pc = "loop"
               /\ monitors[m].is_running)
                ~> (m \in MonitorIds
                      /\ (monitors[m].pc \in {"capture", "sleep"}
                            \/ ~monitors[m].is_running))
         /\ (m \in MonitorIds /\ ~monitors[m].is_running)
                ~> (m \in MonitorIds /\ monitors[m].pc = "done")

\* C25 witness: a tick of a running session ended with a classifier error
\* or an empty result (its file could not be removed, the cooldown was not
\* set, nothing was published) and a later tick has found its window.
LaterTickAfterFailedTick ==
    \E m \in MonitorIds :
      /\ monitors[m].is_running
      /\ monitors[m].pc = "capture"
      /\ monitors[m].alerts = <<>>
      /\ monitors[m].last_detection_time = 0
      /\ \E f \in SessionFiles(m) : f.t < now

\* A tick of monitor m at the current time is due: no alert was published
\* yet, or the last one lies at least detection_cooldown seconds back.
AlertDue(m) ==
    \/ monitors[m].alerts = <<>>
    \/ now - monitors[m].alerts[Len(monitors[m].alerts)] >= detection_cooldown

\* C26: when every tick is classified as a match, a tick that is due (the
\* first one, or one at least detection_cooldown seconds after the last
\* alert) publishes an alert with its own time, and a tick that is not due
\* publishes none.
AllPositiveAlertsExactlyWhenDue ==
    [][\A m \in MonitorIds :
         /\ (monitors[m].pc = "analyze" /\ monitors'[m].pc # "analyze") =>
                IF AlertDue(m)
                THEN /\ monitors'[m].pc = "classify"
                     /\ monitors'[m].current_time = now
                ELSE /\ monitors'[m].pc = "sleep"
                     /\ monitors'[m].alerts = monitors[m].alerts
         /\ (monitors[m].pc = "classify" /\ monitors'[m].pc # "classify") =>
                monitors'[m].pc = "alert"
         /\ (monitors[m].pc = "alert" /\ monitors'[m].pc # "alert") =>
                monitors'[m].alerts =
                    Append(monitors[m].alerts, monitors[m].current_time)
         /\ (monitors[m].pc # "alert") =>
                monitors'[m].alerts = monitors[m].alerts]_vars

\* C26 witness: two alerts were published and the tick after the second
\* one, less than detection_cooldown seconds later, has just been skipped.
TwoAlertsThenSkippedTick ==
    \E m \in MonitorIds :
      /\ Len(monitors[m].alerts) = 2
      /\ monitors[m].pc = "sleep"
      /\ monitors[m].wake_at = now + SleepSeconds
      /\ monitors[m].alerts[2] < now
      /\ now - monitors[m].alerts[2] < detection_cooldown

\* The messages a producer can publish.
Messages == {Message(p, n) : p \in Producers \cup HubSessions,
                             n \in 1..MaxMessages}

\* A broadcast coroutine has taken up message for a list of subscribers
\* that holds ws.
TakenUpFor(message, ws) ==
    \E b \in broadcasts : b.msg = message /\ ws \in Range(b.snapshot)

\* send_json(message) has been called on ws.
SentTo(message, ws) ==
    \E i \in 1..Len(sent[ws]) : sent[ws][i].msg = message

\* C27: with one subscriber whose send never completes, every message
\* taken up by a broadcast is eventually sent to every other subscriber of
\* that broadcast, unless that subscriber goes away.
StuckSubscriberDoesNotBlockOthers ==
    \A message \in Messages : \A ws \in WebSockets \ {StuckWebSocket} :
        TakenUpFor(message, ws)
            ~> (SentTo(message, ws) \/ ws_state[ws] # "open")

\* The protection loops that have not ended.
LiveProtectionLoops ==
    {i \in ProtectionThreadIds : protection_threads[i] # "done"}

\* C30: at most one protection loop is live, and a loop that was live when
\* stop_protection was called never passes its while test again.
StoppedProtectionLoopNeverResumes ==
    /\ [](Cardinality(LiveProtectionLoops) <= 1)
    /\ [][\A i \in stopped_threads :
            ~(protection_threads[i] = "check"
                /\ protection_threads'[i] = "sleep")]_vars

====
